---------------------------- MODULE Spec2Model ----------------------------
(***************************************************************************)
(* Prompt lifecycle, versioning and share links of the Vibe Coding         *)
(* backend (backend/app/services/prompt.py, routers/prompts.py,            *)
(* routers/share.py, services/project.py).                                 *)
(*                                                                         *)
(* The state is the database (the projects, prompts and prompt_versions    *)
(* tables) and the background completion tasks not yet run.  A handler is  *)
(* an operator from the database and the request to the database           *)
(* afterwards and the response; an action applies one handler.  Two        *)
(* specifications are given over the same state:                           *)
(*   Spec      every request handler runs to completion as one step        *)
(*             (requests that do not overlap);                             *)
(*   ConcSpec  update_prompt calls run one database statement at a time    *)
(*             and interleave (overlapping requests and background tasks). *)
(*                                                                         *)
(* Conventions.  A Python str is a sequence of one-character strings.  An  *)
(* Optional value is a sequence of length at most one: None is << >> and   *)
(* a value v is << v >>.  A dict is a function whose DOMAIN is its keys.   *)
(***************************************************************************)
EXTENDS Naturals, Integers, Sequences, FiniteSets, TLC

\* ------------------------------------------------------------------ bounds
\* rows ever inserted into projects / prompts (primary keys are never reused)
MaxProjects == 1
MaxPrompts == 1
\* rows of prompt_versions the model lets exist at once
MaxVersions == 2
\* background tasks the model lets be queued at once
MaxTasks == 1
\* fields a PromptUpdate body sets at most
MaxFields == 2
\* ConcSpec: update_prompt calls in progress at once
MaxSessions == 2
\* ConcSpec: update_prompt calls begun in one behaviour
MaxCalls == 3

\* ------------------------------------------------------------------ values
Users == {"u1", "u2"}
ProjectIds == 1..MaxProjects
PromptIds == 1..MaxPrompts
\* a project id in a request path: 0 stands for a UUID that is no project's
PathProjectIds == {0} \cup ProjectIds
SessionIds == 1..MaxSessions

None == << >>
Some(v) == << v >>
IsNone(o) == o = None
\* Python truthiness of an Optional[str]: neither None nor the empty string
Truthy(o) == o # None /\ o[1] # << >>

\* ---------------------------------------------------------- sanitization
Whitespace == {" ", "\t", "\n"}
Forbidden == {"<", ">", "{", "}", "[", "]", "\\", "^", "~"}

\* re.sub(r'\s+', ' ', text): every maximal run of whitespace becomes " "
RECURSIVE CollapseWhitespace(_)
CollapseWhitespace(s) ==
    IF s = << >> THEN << >>
    ELSE IF Head(s) \in Whitespace
         THEN IF Len(s) > 1 /\ s[2] \in Whitespace
              THEN CollapseWhitespace(Tail(s))
              ELSE << " " >> \o CollapseWhitespace(Tail(s))
         ELSE << Head(s) >> \o CollapseWhitespace(Tail(s))

\* str.strip(): whitespace removed at both ends
RECURSIVE StripLeft(_)
StripLeft(s) ==
    IF s # << >> /\ Head(s) \in Whitespace THEN StripLeft(Tail(s)) ELSE s

RECURSIVE StripRight(_)
StripRight(s) ==
    IF s # << >> /\ s[Len(s)] \in Whitespace
    THEN StripRight(SubSeq(s, 1, Len(s) - 1))
    ELSE s

\* a strip that leaves the right end alone
Strip_left_only(s) == StripLeft(s)

Strip(s) == StripRight(StripLeft(s))

\* re.sub(r'[<>{}\[\]\\^~]', '', sanitized)
RemoveForbidden(s) == SelectSeq(s, LAMBDA c : c \notin Forbidden)

sanitize_prompt_text(text) ==
    IF text = << >> THEN << >>
    ELSE RemoveForbidden(Strip(CollapseWhitespace(text)))

\* ------------------------------------------------------- request bodies
\* keyword in text
Contains(text, keyword) ==
    \E i \in 1..Len(text) :
        /\ i + Len(keyword) - 1 <= Len(text)
        /\ SubSeq(text, i, i + Len(keyword) - 1) = keyword

\* str.lower() on the letters the texts below use
Lower(text) == [i \in 1..Len(text) |-> IF text[i] = "V" THEN "v" ELSE text[i]]

MinLength == 10

vibe_coding_keywords ==
    { << "v", "i", "b", "e" >>, << "c", "o", "d", "i", "n", "g" >>,
      << "d", "e", "s", "a", "r", "r", "o", "l", "l", "o" >>,
      << "p", "r", "o", "y", "e", "c", "t", "o" >>,
      << "f", "e", "a", "t", "u", "r", "e" >> }

\* the prompt_text validator of PromptBase and PromptUpdate: at least ten
\* characters, before and after strip, one of the keywords, none of the
\* forbidden characters
PassesValidator(v) ==
    /\ Len(v) >= MinLength
    /\ Len(Strip(v)) >= MinLength
    /\ \E k \in vibe_coding_keywords : Contains(Lower(v), k)
    /\ \A i \in 1..Len(v) : v[i] \notin Forbidden

TextVibe == << "v", "i", "b", "e", " ", "c", "o", "d", "i", "n", "g" >>
TextVibeWide == << "v", "i", "b", "e", " ", " ", "c", "o", "d", "i", "n", "g" >>
TextFeature == << "n", "e", "w", " ", "f", "e", "a", "t", "u", "r", "e" >>

\* texts clients put in prompt_text; the validator refuses the last four
\* (too short, no keyword, a forbidden character, too short once stripped)
SentTexts ==
    { TextVibe, TextVibeWide, TextFeature,
      << " " >> \o TextFeature \o << " " >>,
      << "v", "i", "b", "e", " ", "c", "o", "d", "e" >>,
      << "h", "e", "l", "l", "o", " ", "w", "o", "r", "l", "d" >>,
      << "v", "i", "b", "e", " ", "<", "c", "o", "d", "i", "n", "g", ">" >>,
      << " ", " ", "v", "i", "b", "e", " ", "c", "o", "d", "e", " ", " " >> }

\* the prompt_text values that reach the handlers: the validator returns
\* v.strip(), inner runs of whitespace are kept
RawTexts == { Strip(v) : v \in { t \in SentTexts : PassesValidator(t) } }

\* completions of the external model: openai.py returns message.content
\* as it is, the empty string included
Empty == << >>
G1 == << "x" >>
Completions == {Empty, G1}

StatusValues == {"pending", "processing", "completed", "failed"}
PromptTypes == {"feature"}
ProjectNames == {"n1", "n2"}

\* ------------------------------------------------------------------- state
VARIABLES
    projects,     \* projects table: id -> row
    prompts,      \* prompts table: id -> row
    versions,     \* prompt_versions table, rows in insertion order
    tasks,        \* background tasks added by process_prompt, not yet run
    nextProject,  \* number of project rows ever inserted, plus one
    nextPrompt,   \* number of prompt rows ever inserted, plus one
    users,        \* users table: id -> row (the premium flag)
    sessions,     \* ConcSpec: the update_prompt calls in progress
    calls,        \* ConcSpec: number of update_prompt calls begun
    webhook,      \* PaySpec: event type and status code of the last
                  \* request to /webhook/polar
    san           \* SanSpec: a call of sanitize_prompt_text, its argument,
                  \* its local variable and where it is

vars == << projects, prompts, versions, tasks, nextProject, nextPrompt,
           users, sessions, calls, webhook, san >>

\* the database (and task queue) as one value, for the handlers to work on
DB == [projects |-> projects, prompts |-> prompts, versions |-> versions,
       tasks |-> tasks, nextProject |-> nextProject, nextPrompt |-> nextPrompt,
       users |-> users]

HTTP_200_OK == 200
HTTP_201_CREATED == 201
HTTP_400_BAD_REQUEST == 400
HTTP_401_UNAUTHORIZED == 401
HTTP_403_FORBIDDEN == 403
HTTP_404_NOT_FOUND == 404
HTTP_500_INTERNAL_SERVER_ERROR == 500

\* what a handler gives: the database afterwards, the status code and the
\* response body (None when an HTTPException is raised)
Result(d, code, body) == [db |-> d, code |-> code, body |-> body]

\* the users table when the run begins: u1 and u2 have registered, no one
\* is premium
RegisteredUsers ==
    [u \in Users |->
        [email |-> IF u = "u1" THEN "e1" ELSE "e2",
         password_hash |-> << "hash", "Secret123" >>,
         is_active |-> TRUE, is_superuser |-> FALSE, is_premium |-> FALSE]]

\* no call of sanitize_prompt_text under way
NoCall == [text |-> << >>, sanitized |-> << >>, pc |-> "none", first |-> None]

\* no update_prompt call in this database session
Idle ==
    [pc |-> "idle", kind |-> "put", user |-> "u1", prompt_id |-> 0,
     update_data |-> << >>, text |-> << >>, content |-> None, number |-> 0,
     created |-> FALSE, stale |-> FALSE]

Init ==
    /\ projects = << >>
    /\ prompts = << >>
    /\ versions = << >>
    /\ tasks = << >>
    /\ nextProject = 1
    /\ nextPrompt = 1
    /\ users = RegisteredUsers
    /\ sessions = [s \in SessionIds |-> Idle]
    /\ calls = 0
    /\ webhook = None
    /\ san = NoCall

\* ----------------------------------------------------------------- reads
\* validate_project_ownership checking that the project exists and no more
validate_project_ownership_exists(d, project_id, user_id) ==
    IF project_id \notin DOMAIN d.projects THEN HTTP_404_NOT_FOUND
    ELSE HTTP_200_OK

\* validate_project_ownership as a lookup filtered by owner (WHERE id = ...
\* AND user_id = ...): a project of somebody else looks absent
validate_project_ownership_filtered(d, project_id, user_id) ==
    IF project_id \notin DOMAIN d.projects THEN HTTP_404_NOT_FOUND
    ELSE IF d.projects[project_id].user_id # user_id THEN HTTP_404_NOT_FOUND
    ELSE HTTP_200_OK

\* validate_project_ownership: 404 when the project is absent, 403 when the
\* user is not its owner, else the project is returned (200 here)
validate_project_ownership(d, project_id, user_id) ==
    IF project_id \notin DOMAIN d.projects THEN HTTP_404_NOT_FOUND
    ELSE IF d.projects[project_id].user_id # user_id THEN HTTP_403_FORBIDDEN
    ELSE HTTP_200_OK

\* services/project.py get_project: the same two checks
get_project(d, project_id, user_id) ==
    IF project_id \notin DOMAIN d.projects THEN HTTP_404_NOT_FOUND
    ELSE IF d.projects[project_id].user_id # user_id THEN HTTP_403_FORBIDDEN
    ELSE HTTP_200_OK

\* get_prompt: 404 when the prompt is absent, else the ownership of its
\* project decides
get_prompt(d, prompt_id, user_id) ==
    IF prompt_id \notin DOMAIN d.prompts THEN HTTP_404_NOT_FOUND
    ELSE validate_project_ownership(d, d.prompts[prompt_id].project_id, user_id)

VersionsOf(vs, prompt_id) ==
    { i \in 1..Len(vs) : vs[i].prompt_id = prompt_id }

MaxOf(S) == CHOOSE m \in S : \A n \in S : n <= m

\* ON DELETE CASCADE, prompts -> prompt_versions
CascadeVersions(vs, gone) ==
    SelectSeq(vs, LAMBDA v : v.prompt_id \notin gone)

Without(f, gone) == [k \in DOMAIN f \ gone |-> f[k]]

\* ------------------------------------------------------ project handlers
\* POST /projects/
create_project(d, user, name) ==
    LET row == [user_id |-> user, name |-> name] IN
    Result([d EXCEPT !.projects = (d.nextProject :> row) @@ @,
                     !.nextProject = @ + 1],
           HTTP_201_CREATED, Some(row))

\* GET /projects/{project_id}
read_project(d, user, project_id) ==
    LET code == get_project(d, project_id, user) IN
    IF code # HTTP_200_OK THEN Result(d, code, None)
    ELSE Result(d, code, Some(d.projects[project_id]))

\* PUT /projects/{project_id}; update_data is ProjectUpdate's dump of the
\* fields that were set
update_project(d, user, project_id, update_data) ==
    LET code == get_project(d, project_id, user)
        row == [k \in DOMAIN d.projects[project_id] |->
                   IF k \in DOMAIN update_data THEN update_data[k]
                   ELSE d.projects[project_id][k]]
    IN  IF code # HTTP_200_OK THEN Result(d, code, None)
        ELSE Result([d EXCEPT !.projects[project_id] = row], code, Some(row))

\* DELETE /projects/{project_id}; the prompts of the project and their
\* versions go with it (ON DELETE CASCADE)
delete_project(d, user, project_id) ==
    LET code == get_project(d, project_id, user)
        gone == { p \in DOMAIN d.prompts : d.prompts[p].project_id = project_id }
    IN  IF code # HTTP_200_OK THEN Result(d, code, None)
        ELSE Result([d EXCEPT !.projects = Without(@, {project_id}),
                              !.prompts = Without(@, gone),
                              !.versions = CascadeVersions(@, gone)],
                    code, Some(d.projects[project_id]))

ProjectUpdates == { << >> } \cup { [name |-> n] : n \in ProjectNames }

\* ------------------------------------------------------- prompt service
\* a prompts row as create_prompt inserts it: status takes the column
\* default, generated_content and generated_at are NULL.  updated_at is
\* "inserted", the time of the INSERT (server_default), until an UPDATE
\* sets it to its own, later, time: "updated" (the times of different
\* UPDATEs are not told apart)
NewPrompt(project_id, user_id, text, prompt_type) ==
    [project_id |-> project_id, user_id |-> user_id,
     prompt_text |-> sanitize_prompt_text(text),
     generated_content |-> None, generated_at |-> None,
     prompt_type |-> prompt_type, status |-> Some("pending"),
     updated_at |-> "inserted"]

\* create_prompt without the ownership check of line 101
create_prompt_unchecked(d, project_id, text, prompt_type, user_id) ==
    LET row == NewPrompt(project_id, user_id, text, prompt_type) IN
    Result([d EXCEPT !.prompts = (d.nextPrompt :> row) @@ @,
                     !.nextPrompt = @ + 1],
           HTTP_201_CREATED, Some(row))

\* services/prompt.py create_prompt
create_prompt(d, project_id, text, prompt_type, user_id) ==
    LET code == validate_project_ownership(d, project_id, user_id)
        row == NewPrompt(project_id, user_id, text, prompt_type)
    IN  IF code # HTTP_200_OK THEN Result(d, code, None)
        ELSE Result([d EXCEPT !.prompts = (d.nextPrompt :> row) @@ @,
                              !.nextPrompt = @ + 1],
                    HTTP_201_CREATED, Some(row))

\* get_prompts_by_project
get_prompts_by_project(d, project_id, user_id) ==
    LET code == validate_project_ownership(d, project_id, user_id) IN
    IF code # HTTP_200_OK THEN Result(d, code, None)
    ELSE Result(d, code,
            Some({ d.prompts[p] : p \in
                   { q \in DOMAIN d.prompts : d.prompts[q].project_id = project_id } }))

\* update_prompt, lines 238-249: the dump of the fields that were set, the
\* text sanitized when there is one, generated_at stamped when there is a
\* non-empty generated_content
PreparedUpdate(update_data) ==
    LET d1 == IF "prompt_text" \in DOMAIN update_data
                 /\ Truthy(update_data["prompt_text"])
              THEN [update_data EXCEPT !["prompt_text"] =
                        Some(sanitize_prompt_text(@[1]))]
              ELSE update_data
    IN  IF "generated_content" \in DOMAIN d1 /\ Truthy(d1["generated_content"])
        THEN ("generated_at" :> Some("now")) @@ d1
        ELSE d1

\* update_prompt, lines 233-252: should_create_version
should_create_version(prompt, update_data) ==
    \/ /\ "prompt_text" \in DOMAIN update_data
       /\ Truthy(update_data["prompt_text"])
       /\ sanitize_prompt_text(update_data["prompt_text"][1]) # prompt.prompt_text
    \/ /\ "generated_content" \in DOMAIN update_data
       /\ Truthy(update_data["generated_content"])
       /\ update_data["generated_content"] # prompt.generated_content

\* update_prompt, line 255: a version is written when should_create_version
\* holds and the captured text or content is non-empty
CreatesVersion(prompt, update_data) ==
    /\ should_create_version(prompt, update_data)
    /\ (prompt.prompt_text # << >> \/ Truthy(prompt.generated_content))

\* a snapshot that keeps the text and forgets the content
Snapshot_text_only(prompt) ==
    [text |-> prompt.prompt_text, content |-> None]

\* update_prompt, lines 233-235: version_prompt_text and
\* version_generated_content, read from the prompt as get_prompt loaded it
Snapshot(prompt) ==
    [text |-> prompt.prompt_text, content |-> prompt.generated_content]

\* create_prompt_version numbering every version 1
next_version_first(vs, prompt_id) == 1

\* create_prompt_version leaving a number out after the first
next_version_skipping(vs, prompt_id) ==
    IF VersionsOf(vs, prompt_id) = {} THEN 1
    ELSE MaxOf({ vs[i].version_number : i \in VersionsOf(vs, prompt_id) }) + 2

\* create_prompt_version, lines 410-417: (max_version or 0) + 1
next_version(vs, prompt_id) ==
    IF VersionsOf(vs, prompt_id) = {} THEN 1
    ELSE MaxOf({ vs[i].version_number : i \in VersionsOf(vs, prompt_id) }) + 1

\* create_prompt_version, lines 420-425
NewVersion(prompt_id, number, text, content) ==
    [prompt_id |-> prompt_id, version_number |-> number,
     prompt_text |-> text, generated_content |-> content]

\* an INSERT that replaces the version the prompt already has
InsertRow_overwrite(vs, row) ==
    IF VersionsOf(vs, row.prompt_id) = {} THEN Append(vs, row)
    ELSE [i \in 1..Len(vs) |->
             IF i = MaxOf(VersionsOf(vs, row.prompt_id)) THEN row ELSE vs[i]]

\* create_prompt_version, lines 427-428: db.add(db_version) and commit, one
\* more row in prompt_versions
InsertRow(vs, row) == Append(vs, row)

\* the UPDATE of line 264 violates NOT NULL on prompts.prompt_text when the
\* update sets prompt_text to null; every other column is nullable
UpdateFails(update_data) ==
    "prompt_text" \in DOMAIN update_data /\ update_data["prompt_text"] = None

\* an UPDATE that sets the columns of update_data and no other
ApplyUpdate_no_onupdate(row, update_data) ==
    [k \in DOMAIN row |->
        IF k \in DOMAIN update_data
        THEN IF k = "prompt_text" THEN update_data[k][1] ELSE update_data[k]
        ELSE row[k]]

\* UPDATE prompts SET <update_data> WHERE id = prompt_id; updated_at is not
\* in the SET clause and takes its onupdate value (models/prompt.py 26)
ApplyUpdate(row, update_data) ==
    [k \in DOMAIN row |->
        IF k \in DOMAIN update_data
        THEN IF k = "prompt_text" THEN update_data[k][1] ELSE update_data[k]
        ELSE IF k = "updated_at" THEN "updated"
        ELSE row[k]]

\* services/prompt.py update_prompt, run to completion: authorize, write the
\* version (committed by create_prompt_version), then UPDATE and commit
update_prompt(d, prompt_id, update_data, user_id) ==
    LET code == get_prompt(d, prompt_id, user_id)
        prompt == d.prompts[prompt_id]
        prepared == PreparedUpdate(update_data)
        snap == Snapshot(prompt)
        vs == IF CreatesVersion(prompt, update_data)
              THEN InsertRow(d.versions,
                       NewVersion(prompt_id, next_version(d.versions, prompt_id),
                                  snap.text, snap.content))
              ELSE d.versions
        row == ApplyUpdate(prompt, prepared)
    IN  IF code # HTTP_200_OK THEN Result(d, code, None)
        ELSE IF DOMAIN prepared = {}
        THEN Result([d EXCEPT !.versions = vs], HTTP_200_OK, Some(prompt))
        ELSE IF UpdateFails(prepared)
        THEN Result([d EXCEPT !.versions = vs],
                    HTTP_500_INTERNAL_SERVER_ERROR, None)
        ELSE Result([d EXCEPT !.versions = vs, !.prompts[prompt_id] = row],
                    HTTP_200_OK, Some(row))

\* services/prompt.py delete_prompt; the versions of the prompt go with it
\* (ON DELETE CASCADE)
delete_prompt(d, prompt_id, user_id) ==
    LET code == get_prompt(d, prompt_id, user_id) IN
    IF code # HTTP_200_OK THEN Result(d, code, None)
    ELSE Result([d EXCEPT !.prompts = Without(@, {prompt_id}),
                          !.versions = CascadeVersions(@, {prompt_id})],
                code, Some(d.prompts[prompt_id]))

\* the PromptUpdate bodies a client can send: any subset of prompt_text,
\* generated_content and status, each with a valid value or an explicit
\* null (prompt_type, which update_prompt passes through as it does status,
\* is left unset)
TextValues == {None} \cup { Some(t) : t \in RawTexts }
ContentValues == {None} \cup { Some(c) : c \in Completions }
TypeValues == { Some(t) : t \in PromptTypes }
StatusUpdateValues == {None} \cup { Some(x) : x \in StatusValues }

UpdateFields == {"prompt_text", "generated_content", "status"}

PromptUpdates ==
    { [k \in K |-> CASE k = "prompt_text" -> a
                     [] k = "generated_content" -> b
                     [] k = "status" -> c] :
        K \in { F \in SUBSET UpdateFields : Cardinality(F) <= MaxFields },
        a \in TextValues, b \in ContentValues, c \in StatusUpdateValues }

\* ------------------------------------------------------ prompt routes
\* POST /projects/{project_id}/prompts/
route_create_prompt(d, user, project_id, body_project_id, text, prompt_type) ==
    IF body_project_id # project_id
    THEN Result(d, HTTP_400_BAD_REQUEST, None)
    ELSE create_prompt(d, body_project_id, text, prompt_type, user)

\* GET /projects/{project_id}/prompts/{prompt_id}
route_get_prompt(d, user, project_id, prompt_id) ==
    LET code == get_prompt(d, prompt_id, user) IN
    IF code # HTTP_200_OK THEN Result(d, code, None)
    ELSE IF d.prompts[prompt_id].project_id # project_id
    THEN Result(d, HTTP_404_NOT_FOUND, None)
    ELSE Result(d, code, Some(d.prompts[prompt_id]))

\* PUT /projects/{project_id}/prompts/{prompt_id}
route_update_prompt(d, user, project_id, prompt_id, update_data) ==
    LET code == get_prompt(d, prompt_id, user) IN
    IF code # HTTP_200_OK THEN Result(d, code, None)
    ELSE IF d.prompts[prompt_id].project_id # project_id
    THEN Result(d, HTTP_404_NOT_FOUND, None)
    ELSE update_prompt(d, prompt_id, update_data, user)

\* DELETE /projects/{project_id}/prompts/{prompt_id}
route_delete_prompt(d, user, project_id, prompt_id) ==
    LET code == get_prompt(d, prompt_id, user) IN
    IF code # HTTP_200_OK THEN Result(d, code, None)
    ELSE IF d.prompts[prompt_id].project_id # project_id
    THEN Result(d, HTTP_404_NOT_FOUND, None)
    ELSE delete_prompt(d, prompt_id, user)

\* process_prompt without the check of lines 171-175
process_prompt_unguarded(d, user, prompt_id) ==
    LET code == get_prompt(d, prompt_id, user)
        r == update_prompt(d, prompt_id, [status |-> Some("processing")], user)
    IN  IF code # HTTP_200_OK THEN Result(d, code, None)
        ELSE IF r.code # HTTP_200_OK THEN Result(r.db, r.code, None)
        ELSE Result([r.db EXCEPT !.tasks = Append(@,
                        [prompt_id |-> prompt_id,
                         prompt_text |-> r.db.prompts[prompt_id].prompt_text,
                         user_id |-> user])],
                    HTTP_200_OK, r.body)

\* POST /prompts/{prompt_id}/process: refuse a prompt that is processing,
\* else set its status through update_prompt and add the background task
\* with prompt.prompt_text as the session holds it after the update; the
\* response is the prompt as refreshed by the update
process_prompt(d, user, prompt_id) ==
    LET code == get_prompt(d, prompt_id, user)
        r == update_prompt(d, prompt_id, [status |-> Some("processing")], user)
    IN  IF code # HTTP_200_OK THEN Result(d, code, None)
        ELSE IF d.prompts[prompt_id].status = Some("processing")
        THEN Result(d, HTTP_400_BAD_REQUEST, None)
        ELSE IF r.code # HTTP_200_OK THEN Result(r.db, r.code, None)
        ELSE Result([r.db EXCEPT !.tasks = Append(@,
                        [prompt_id |-> prompt_id,
                         prompt_text |-> r.db.prompts[prompt_id].prompt_text,
                         user_id |-> user])],
                    HTTP_200_OK, r.body)

RemoveAt(q, i) == SubSeq(q, 1, i - 1) \o SubSeq(q, i + 1, Len(q))

\* the background task giving up when the completion fails: no status update
process_prompt_with_openai_silent(d, i, completion) ==
    LET t == d.tasks[i]
        d0 == [d EXCEPT !.tasks = RemoveAt(@, i)]
        r1 == update_prompt(d0, t.prompt_id,
                  [generated_content |-> completion, status |-> Some("completed")],
                  t.user_id)
    IN  IF completion # None /\ r1.code = HTTP_200_OK
        THEN Result(r1.db, r1.code, None)
        ELSE Result(IF completion = None THEN d0 ELSE r1.db,
                    HTTP_500_INTERNAL_SERVER_ERROR, None)

\* the background task process_prompt_with_openai, run after the response:
\* completion is what generate_completion returned (None when it raised).
\* The completion is stored with status completed; when anything raises,
\* the task asks for status failed, and a failure of that is only logged.
\* The code of the result is that of the last update_prompt.
process_prompt_with_openai(d, i, completion) ==
    LET t == d.tasks[i]
        d0 == [d EXCEPT !.tasks = RemoveAt(@, i)]
        r1 == update_prompt(d0, t.prompt_id,
                  [generated_content |-> completion, status |-> Some("completed")],
                  t.user_id)
        r2 == update_prompt(IF completion = None THEN d0 ELSE r1.db, t.prompt_id,
                            [status |-> Some("failed")], t.user_id)
    IN  IF completion # None /\ r1.code = HTTP_200_OK
        THEN Result(r1.db, r1.code, None)
        ELSE Result(r2.db, r2.code, None)

\* GET /prompts/{prompt_id}/status (the preview is cut at 200 characters in
\* the code; the completions here are shorter)
get_prompt_status(d, user, prompt_id) ==
    LET code == get_prompt(d, prompt_id, user)
        prompt == d.prompts[prompt_id]
    IN  IF code # HTTP_200_OK THEN Result(d, code, None)
        ELSE Result(d, code,
                Some([status |-> prompt.status,
                      generated_at |-> prompt.generated_at,
                      content_preview |->
                         IF prompt.status = Some("completed")
                            /\ Truthy(prompt.generated_content)
                         THEN prompt.generated_content ELSE None]))

\* ------------------------------------------------------------ share links
\* the mapped attributes of the Prompt model (models/prompt.py)
PromptColumns ==
    {"id", "project_id", "user_id", "prompt_text", "generated_content",
     "generated_at", "prompt_type", "status", "created_at", "updated_at"}

\* values of str(uuid.uuid4())
Tokens == {"t1", "t2"}

\* services/prompt.py create_share_link; uuid4 is the value uuid.uuid4()
\* gives.  prompt.share_token (line 340) is read from a Prompt instance: the
\* model maps no such attribute, the read raises AttributeError and the
\* handler of line 357 answers 500.
create_share_link(d, prompt_id, user_id, uuid4) ==
    LET code == get_prompt(d, prompt_id, user_id) IN
    IF code # HTTP_200_OK THEN Result(d, code, None)
    ELSE IF "share_token" \notin PromptColumns
    THEN Result(d, HTTP_500_INTERNAL_SERVER_ERROR, None)
    ELSE IF ~Truthy(d.prompts[prompt_id].share_token)
    THEN Result([d EXCEPT !.prompts[prompt_id].share_token = Some(uuid4)],
                HTTP_200_OK, Some(uuid4))
    ELSE Result(d, HTTP_200_OK, d.prompts[prompt_id].share_token)

\* services/prompt.py get_shared_prompt: Prompt.share_token (line 380) raises
\* AttributeError inside the try, and the function returns None
get_shared_prompt(d, share_token) ==
    IF "share_token" \notin PromptColumns THEN None
    ELSE LET S == { p \in DOMAIN d.prompts :
                        d.prompts[p].share_token = Some(share_token) }
         IN  IF S = {} THEN None ELSE Some(CHOOSE p \in S : TRUE)

\* GET /share/{token}: no authentication
route_get_shared_prompt(d, token) ==
    LET prompt == get_shared_prompt(d, token) IN
    IF prompt = None THEN Result(d, HTTP_404_NOT_FOUND, None)
    ELSE Result(d, HTTP_200_OK, Some(d.prompts[prompt[1]]))

\* ------------------------------------------------------------------ Spec
WithinBounds(d) ==
    /\ d.nextProject <= MaxProjects + 1
    /\ d.nextPrompt <= MaxPrompts + 1
    /\ Len(d.versions) <= MaxVersions
    /\ Len(d.tasks) <= MaxTasks

\* a handler runs: the database becomes the one it gives
Do(r) ==
    /\ WithinBounds(r.db)
    /\ projects' = r.db.projects
    /\ prompts' = r.db.prompts
    /\ versions' = r.db.versions
    /\ tasks' = r.db.tasks
    /\ nextProject' = r.db.nextProject
    /\ nextPrompt' = r.db.nextPrompt
    /\ users' = r.db.users
    /\ UNCHANGED << sessions, calls, webhook, san >>

\* a call that is refused does not look at its body: one body stands for all
BodiesFor(user, project_id, prompt_id) ==
    IF route_get_prompt(DB, user, project_id, prompt_id).code = HTTP_200_OK
    THEN PromptUpdates ELSE { << >> }

Next ==
    \/ \E u \in Users, n \in ProjectNames : Do(create_project(DB, u, n))
    \/ \E u \in Users, j \in ProjectIds : Do(read_project(DB, u, j))
    \/ \E u \in Users, j \in ProjectIds, b \in ProjectUpdates :
            Do(update_project(DB, u, j, b))
    \/ \E u \in Users, j \in ProjectIds : Do(delete_project(DB, u, j))
    \/ \E u \in Users, j \in PathProjectIds, b \in ProjectIds, t \in RawTexts,
          y \in TypeValues :
            Do(route_create_prompt(DB, u, j, b, t, y))
    \/ \E u \in Users, j \in ProjectIds : Do(get_prompts_by_project(DB, j, u))
    \/ \E u \in Users, j \in PathProjectIds, p \in PromptIds :
            Do(route_get_prompt(DB, u, j, p))
    \/ \E u \in Users, j \in PathProjectIds, p \in PromptIds :
         \E b \in BodiesFor(u, j, p) : Do(route_update_prompt(DB, u, j, p, b))
    \/ \E u \in Users, j \in PathProjectIds, p \in PromptIds :
            Do(route_delete_prompt(DB, u, j, p))
    \/ \E u \in Users, p \in PromptIds : Do(process_prompt(DB, u, p))
    \/ \E i \in 1..Len(tasks), c \in ContentValues :
            Do(process_prompt_with_openai(DB, i, c))
    \/ \E u \in Users, p \in PromptIds : Do(get_prompt_status(DB, u, p))
    \/ \E u \in Users, p \in PromptIds, k \in Tokens :
            Do(create_share_link(DB, p, u, k))
    \/ \E k \in Tokens : Do(route_get_shared_prompt(DB, k))

Spec == Init /\ [][Next]_vars



\* ------------------------------------------------------------- ConcSpec
\* update_prompt one statement at a time.  A call owns a database session
\* (the request's, or the one the background task opens); its statements
\* are: the SELECT of get_prompt, which loads the prompt (the router's
\* get_prompt and the service's share the session, so the service sees the
\* object the first SELECT loaded), the SELECT max of create_prompt_version,
\* its INSERT and commit, and the UPDATE with its commit and refresh.
\* Statements of different calls interleave.

\* the bodies clients send in ConcSpec
ConcUpdates ==
    { [prompt_text |-> Some(t)] : t \in {TextFeature, TextVibe} }
       \cup { [generated_content |-> Some(c)] : c \in Completions }

\* the lowest database session without a call
FreeSession(s) ==
    /\ sessions[s].pc = "idle"
    /\ \A r \in SessionIds : r < s => sessions[r].pc # "idle"

\* get_prompt has loaded the prompt: the call holds its snapshot and has
\* decided whether to write a version (update_prompt, lines 228-255)
Load(s, kind, user, prompt_id, update_data) ==
    LET prompt == prompts[prompt_id]
        snap == Snapshot(prompt)
    IN  [pc |-> IF CreatesVersion(prompt, update_data) THEN "select"
                ELSE "update",
         kind |-> kind, user |-> user, prompt_id |-> prompt_id,
         update_data |-> PreparedUpdate(update_data),
         text |-> snap.text, content |-> snap.content, number |-> 0,
         created |-> FALSE, stale |-> FALSE]

\* PUT /projects/{project_id}/prompts/{prompt_id} begins
BeginPut(s, user, project_id, prompt_id, update_data) ==
    /\ FreeSession(s)
    /\ calls < MaxCalls
    /\ route_get_prompt(DB, user, project_id, prompt_id).code = HTTP_200_OK
    /\ sessions' = [sessions EXCEPT
                       ![s] = Load(s, "put", user, prompt_id, update_data)]
    /\ calls' = calls + 1
    /\ UNCHANGED << projects, prompts, versions, tasks, nextProject, nextPrompt,
                    users, webhook, san >>

\* POST /prompts/{prompt_id}/process begins: the prompt is loaded, it is not
\* processing, update_prompt is called with status processing
BeginProcess(s, user, prompt_id) ==
    /\ FreeSession(s)
    /\ calls < MaxCalls
    /\ get_prompt(DB, prompt_id, user) = HTTP_200_OK
    /\ prompts[prompt_id].status # Some("processing")
    /\ sessions' = [sessions EXCEPT
                       ![s] = Load(s, "process", user, prompt_id,
                                   [status |-> Some("processing")])]
    /\ calls' = calls + 1
    /\ UNCHANGED << projects, prompts, versions, tasks, nextProject, nextPrompt,
                    users, webhook, san >>

\* the background task has its completion (None when generate_completion
\* raised) and calls update_prompt in a session of its own; when the prompt
\* is gone the call fails, and so does the call for status failed
BeginTask(s, i, completion) ==
    LET t == tasks[i]
        update_data == IF completion = None THEN [status |-> Some("failed")]
                       ELSE [generated_content |-> completion,
                             status |-> Some("completed")]
    IN  /\ FreeSession(s)
        /\ calls < MaxCalls
        /\ tasks' = RemoveAt(tasks, i)
        /\ sessions' =
              IF get_prompt(DB, t.prompt_id, t.user_id) = HTTP_200_OK
              THEN [sessions EXCEPT
                       ![s] = Load(s, "task", t.user_id, t.prompt_id, update_data)]
              ELSE sessions
        /\ calls' = calls + 1
        /\ UNCHANGED << projects, prompts, versions, nextProject, nextPrompt,
                        users, webhook, san >>

\* create_prompt_version, lines 410-417: SELECT max(version_number)
SelectMax(s) ==
    /\ sessions[s].pc = "select"
    /\ sessions' = [sessions EXCEPT
                       ![s].number = next_version(versions, sessions[s].prompt_id),
                       ![s].pc = "insert"]
    /\ UNCHANGED << projects, prompts, versions, tasks, nextProject, nextPrompt,
                    calls, users, webhook, san >>

\* the prompt_versions table taking a row with a unique (prompt_id,
\* version_number)
InsertAccepted_unique(d, row) ==
    /\ row.prompt_id \in DOMAIN d.prompts
    /\ \A i \in 1..Len(d.versions) :
          ~(/\ d.versions[i].prompt_id = row.prompt_id
            /\ d.versions[i].version_number = row.version_number)

\* the prompt_versions table without its foreign key
InsertAccepted_any(d, row) == TRUE

\* the constraints of the prompt_versions table (models/prompt_version.py):
\* prompt_id references prompts.id; nothing is unique but the primary key
InsertAccepted(d, row) == row.prompt_id \in DOMAIN d.prompts

\* create_prompt_version, lines 420-429: INSERT and commit; a refused row
\* is an IntegrityError, the call ends with 500
InsertVersion(s) ==
    LET c == sessions[s]
        row == NewVersion(c.prompt_id, c.number, c.text, c.content)
    IN  /\ c.pc = "insert"
        /\ IF InsertAccepted(DB, row)
           THEN /\ Len(versions) < MaxVersions
                /\ versions' = InsertRow(versions, row)
                /\ sessions' = [sessions EXCEPT ![s].pc = "update",
                                                ![s].created = TRUE]
           ELSE /\ versions' = versions
                /\ sessions' = [sessions EXCEPT ![s] = Idle]
        /\ UNCHANGED << projects, prompts, tasks, nextProject, nextPrompt, calls,
                        users, webhook, san >>

\* the calls whose snapshot a write of row in place of prompts[p] outdates
Outdated(s, p, row) ==
    { r \in SessionIds \ {s} :
        /\ sessions[r].pc # "idle"
        /\ sessions[r].prompt_id = p
        /\ \/ row.prompt_text # prompts[p].prompt_text
           \/ row.generated_content # prompts[p].generated_content }

\* update_prompt, lines 263-272: UPDATE, commit, refresh.  When the prompt
\* is gone or the UPDATE is refused the call ends with 500.  process_prompt
\* then adds the background task with the text of the refreshed prompt.
UpdateRow(s) ==
    LET c == sessions[s]
        p == c.prompt_id
        row == ApplyUpdate(prompts[p], c.update_data)
    IN  /\ c.pc = "update"
        /\ IF p \in DOMAIN prompts /\ ~UpdateFails(c.update_data)
           THEN /\ prompts' = [prompts EXCEPT ![p] = row]
                /\ sessions' = [r \in SessionIds |->
                      IF r = s THEN Idle
                      ELSE IF r \in Outdated(s, p, row)
                      THEN [sessions[r] EXCEPT !.stale = TRUE]
                      ELSE sessions[r]]
                /\ IF c.kind = "process"
                   THEN /\ Len(tasks) < MaxTasks
                        /\ tasks' = Append(tasks,
                              [prompt_id |-> p, prompt_text |-> row.prompt_text,
                               user_id |-> c.user])
                   ELSE tasks' = tasks
           ELSE /\ sessions' = [sessions EXCEPT ![s] = Idle]
                /\ UNCHANGED << prompts, tasks >>
        /\ UNCHANGED << projects, versions, nextProject, nextPrompt, calls,
                        users, webhook, san >>

ConcNext ==
    \/ \E u \in Users : Do(create_project(DB, u, "n1"))
    \/ \E u \in Users, j \in ProjectIds, t \in {TextFeature, TextVibe}, y \in TypeValues :
            Do(route_create_prompt(DB, u, j, j, t, y))
    \/ \E u \in Users, j \in ProjectIds, p \in PromptIds :
            /\ route_get_prompt(DB, u, j, p).code = HTTP_200_OK
            /\ Do(route_delete_prompt(DB, u, j, p))
    \/ \E u \in Users, j \in ProjectIds :
            /\ get_project(DB, j, u) = HTTP_200_OK
            /\ Do(delete_project(DB, u, j))
    \/ \E s \in SessionIds, u \in Users, j \in ProjectIds, p \in PromptIds,
          b \in ConcUpdates :
            BeginPut(s, u, j, p, b)
    \/ \E s \in SessionIds, u \in Users, p \in PromptIds : BeginProcess(s, u, p)
    \/ \E s \in SessionIds, i \in 1..Len(tasks), c \in ContentValues :
            BeginTask(s, i, c)
    \/ \E s \in SessionIds : SelectMax(s)
    \/ \E s \in SessionIds : InsertVersion(s)
    \/ \E s \in SessionIds : UpdateRow(s)

ConcSpec == Init /\ [][ConcNext]_vars

\* ===================================================== properties, Spec
\* the owner of a prompt is the owner of its project
OwnerOf(p) == projects[prompts[p].project_id].user_id

\* a call refused for lack of ownership: 403, no body, nothing written
Refused(r) ==
    /\ r.code = HTTP_403_FORBIDDEN
    /\ r.body = None
    /\ r.db = DB

\* C1: every authenticated operation on an existing project or prompt by a
\* user who does not own the (parent) project answers 403 (never 404),
\* returns nothing and leaves projects, prompts and versions unchanged.
C1_NonOwnerForbidden ==
    /\ \A u \in Users, p \in DOMAIN prompts :
         u # OwnerOf(p) =>
            /\ \A j \in PathProjectIds :
                  /\ Refused(route_get_prompt(DB, u, j, p))
                  /\ Refused(route_delete_prompt(DB, u, j, p))
                  /\ \A b \in PromptUpdates :
                        Refused(route_update_prompt(DB, u, j, p, b))
            /\ Refused(process_prompt(DB, u, p))
            /\ Refused(get_prompt_status(DB, u, p))
            /\ \A k \in Tokens : Refused(create_share_link(DB, p, u, k))
    /\ \A u \in Users, j \in DOMAIN projects :
         u # projects[j].user_id =>
            /\ Refused(read_project(DB, u, j))
            /\ Refused(delete_project(DB, u, j))
            /\ \A b \in ProjectUpdates : Refused(update_project(DB, u, j, b))
            /\ Refused(get_prompts_by_project(DB, j, u))

\* a prompt with generated content and a version exists, and a user who is
\* not its owner asks for it and is refused with 403
C1_Witness ==
    \E u \in Users, p \in DOMAIN prompts :
        /\ u # OwnerOf(p)
        /\ Truthy(prompts[p].generated_content)
        /\ VersionsOf(versions, p) # {}
        /\ route_get_prompt(DB, u, prompts[p].project_id, p).code
              = HTTP_403_FORBIDDEN

\* the largest version_number among the versions of prompt p, 0 when none
PreviousMax(p) ==
    IF \A i \in 1..Len(versions) : versions[i].prompt_id # p THEN 0
    ELSE CHOOSE m \in { versions[i].version_number : i \in VersionsOf(versions, p) } :
            \A i \in VersionsOf(versions, p) : versions[i].version_number <= m

AddsNoVersion(r) == r.db.versions = versions

\* the call added exactly one row to prompt_versions, for prompt p, numbered
\* one more than the previous maximum
AddsOneVersion(r, p) ==
    /\ Len(r.db.versions) = Len(versions) + 1
    /\ SubSeq(r.db.versions, 1, Len(versions)) = versions
    /\ r.db.versions[Len(versions) + 1].prompt_id = p
    /\ r.db.versions[Len(versions) + 1].version_number = PreviousMax(p) + 1

\* the PromptUpdate bodies that carry a prompt_text
TextUpdates ==
    { b \in PromptUpdates : "prompt_text" \in DOMAIN b /\ b["prompt_text"] # None }

\* C2 as stated: an owner's update whose prompt_text equals the stored one
\* (and carries no generated_content) creates no version; one whose
\* prompt_text differs from the stored one creates exactly one version,
\* numbered previous maximum + 1.
C2_TextAsSent ==
    \A p \in DOMAIN prompts, b \in TextUpdates :
        LET r == route_update_prompt(DB, OwnerOf(p), prompts[p].project_id, p, b)
            t == b["prompt_text"][1]
        IN  /\ (t = prompts[p].prompt_text /\ "generated_content" \notin DOMAIN b)
                  => AddsNoVersion(r)
            /\ t # prompts[p].prompt_text => AddsOneVersion(r, p)

\* C2: an owner's update whose prompt_text, once sanitized, equals the
\* stored one (and carries no generated_content) creates no version; one
\* whose sanitized prompt_text differs from the stored one creates exactly
\* one version, numbered previous maximum + 1 (1 when there is none).
C2_TextSanitized ==
    \A p \in DOMAIN prompts, b \in TextUpdates :
        LET r == route_update_prompt(DB, OwnerOf(p), prompts[p].project_id, p, b)
            t == sanitize_prompt_text(b["prompt_text"][1])
        IN  /\ (t = prompts[p].prompt_text /\ "generated_content" \notin DOMAIN b)
                  => AddsNoVersion(r)
            /\ t # prompts[p].prompt_text => AddsOneVersion(r, p)

\* two text updates have been made: versions 1 and 2 of a prompt exist and
\* hold different texts, both different from the text stored now
C2_Witness ==
    \E p \in DOMAIN prompts : \E i, k \in VersionsOf(versions, p) :
        /\ versions[i].version_number = 1
        /\ versions[k].version_number = 2
        /\ versions[i].prompt_text # versions[k].prompt_text
        /\ versions[k].prompt_text # prompts[p].prompt_text

\* a prompt as create_prompt left it
Fresh(p) ==
    /\ prompts[p].status = Some("pending")
    /\ prompts[p].generated_content = None
    /\ VersionsOf(versions, p) = {}

\* task i belongs to a prompt that was created and sent to processing, and
\* nothing else has touched the prompt
FreshlyProcessing(i) ==
    LET p == tasks[i].prompt_id IN
    /\ p \in DOMAIN prompts
    /\ prompts[p].status = Some("processing")
    /\ prompts[p].generated_content = None
    /\ prompts[p].prompt_text = tasks[i].prompt_text
    /\ tasks[i].user_id = OwnerOf(p)
    /\ VersionsOf(versions, p) = {}

\* C3: the owner's process call on a prompt just created leaves it with
\* status processing; when the completion then succeeds and nothing else
\* touches the prompt, the prompt is completed with the completion as its
\* generated_content and has exactly one version, numbered 1, holding the
\* original prompt_text and no generated_content.
C3_EndToEnd ==
    /\ \A p \in DOMAIN prompts :
          Fresh(p) =>
             process_prompt(DB, OwnerOf(p), p).db.prompts[p].status
                = Some("processing")
    /\ \A i \in 1..Len(tasks), c \in Completions :
          FreshlyProcessing(i) =>
             LET p == tasks[i].prompt_id
                 r == process_prompt_with_openai(DB, i, Some(c))
             IN  /\ r.db.prompts[p].status = Some("completed")
                 /\ r.db.prompts[p].generated_content = Some(c)
                 /\ r.db.versions =
                       Append(versions,
                              NewVersion(p, 1, prompts[p].prompt_text, None))

HasToken(d, p, k) ==
    /\ "share_token" \in DOMAIN d.prompts[p]
    /\ d.prompts[p]["share_token"] = Some(k)

\* C5: create_share_link called twice in a row by the owner succeeds both
\* times with the same token; the first call stores the token, the second
\* changes nothing.
C5_ShareLinkIdempotent ==
    \A p \in DOMAIN prompts, k1, k2 \in Tokens :
        LET r1 == create_share_link(DB, p, OwnerOf(p), k1)
            r2 == create_share_link(r1.db, p, OwnerOf(p), k2)
        IN  /\ r1.code = HTTP_200_OK
            /\ r1.body # None
            /\ HasToken(r1.db, p, r1.body[1])
            /\ r2.code = HTTP_200_OK
            /\ r2.body = r1.body
            /\ r2.db = r1.db

\* C6: a token that no prompt carries resolves to not-found; the token
\* create_share_link returned for a prompt resolves to that prompt, the
\* caller not being authenticated.
C6_ResolveSharedPrompt ==
    /\ \A k \in Tokens :
          (\A p \in DOMAIN prompts : ~HasToken(DB, p, k)) =>
              route_get_shared_prompt(DB, k).code = HTTP_404_NOT_FOUND
    /\ \A p \in DOMAIN prompts, k \in Tokens :
          LET r1 == create_share_link(DB, p, OwnerOf(p), k) IN
          /\ r1.body # None
          /\ route_get_shared_prompt(r1.db, r1.body[1]).code = HTTP_200_OK
          /\ route_get_shared_prompt(r1.db, r1.body[1]).body
                = Some(r1.db.prompts[p])

C8_SnapshotRule ==
    \A p \in DOMAIN prompts, b \in PromptUpdates :
        LET cur == prompts[p]
            r == update_prompt(DB, p, b, OwnerOf(p))
            textDiffers ==
                /\ "prompt_text" \in DOMAIN b
                /\ b["prompt_text"] # None
                /\ sanitize_prompt_text(b["prompt_text"][1]) # cur.prompt_text
            contentDiffers ==
                /\ "generated_content" \in DOMAIN b
                /\ b["generated_content"] # cur.generated_content
            nonEmpty == cur.prompt_text # << >> \/ Truthy(cur.generated_content)
        IN  (Len(r.db.versions) = Len(versions) + 1)
               <=> ((textDiffers \/ contentDiffers) /\ nonEmpty)


\* ================================================= properties, ConcSpec
\* call s ends with its UPDATE applied to a prompt that exists
Overwrites(s) ==
    /\ sessions[s].pc = "update"
    /\ sessions'[s].pc = "idle"
    /\ sessions[s].prompt_id \in DOMAIN prompts
    /\ ~UpdateFails(sessions[s].update_data)

\* call s inserts its version: the row holds what the call captured
InsertsSnapshot(s) ==
    (sessions[s].pc = "insert" /\ sessions'[s].pc = "update") =>
        /\ versions' # versions
        /\ versions'[Len(versions')].prompt_text = sessions[s].text
        /\ versions'[Len(versions')].generated_content = sessions[s].content

\* what call s captured is what the prompt holds now
SnapshotCurrent(s) ==
    /\ sessions[s].text = prompts[sessions[s].prompt_id].prompt_text
    /\ sessions[s].content = prompts[sessions[s].prompt_id].generated_content

\* C9 as stated: for every interleaving, the version a call wrote holds the
\* prompt_text and generated_content the prompt has immediately before the
\* call's UPDATE overwrites them.
C9_SnapshotBeforeOverwrite ==
    [][\A s \in SessionIds :
          /\ InsertsSnapshot(s)
          /\ (Overwrites(s) /\ sessions[s].created) => SnapshotCurrent(s)]_vars

\* C9: the version a call wrote holds the prompt_text and generated_content
\* the prompt had when the call loaded it; these are the values its UPDATE
\* overwrites whenever no other call has changed them between the load and
\* the UPDATE.
C9_SnapshotAtLoad ==
    [][\A s \in SessionIds :
          /\ InsertsSnapshot(s)
          /\ (Overwrites(s) /\ sessions[s].created /\ ~sessions[s].stale)
                => SnapshotCurrent(s)]_vars

\* two calls on one prompt are in progress; one has written its version and
\* is about to overwrite, nothing having changed the prompt since its load
C9_Witness ==
    \E s, r \in SessionIds :
        /\ s # r
        /\ sessions[s].pc = "update"
        /\ sessions[s].created
        /\ ~sessions[s].stale
        /\ Truthy(sessions[s].content)
        /\ sessions[r].pc # "idle"
        /\ sessions[r].prompt_id = sessions[s].prompt_id
        /\ sessions[s].prompt_id \in DOMAIN prompts

\* C10: nothing refuses a version whose number is taken: the INSERT of a
\* call adds its row with the number the call computed at its SELECT max,
\* whatever rows other calls have inserted since; two calls that computed
\* the same max + 1 leave two versions of the prompt with one number.
C10_NumberRace ==
    [][\A s \in SessionIds :
          (/\ sessions[s].pc = "insert"
           /\ sessions[s].prompt_id \in DOMAIN prompts
           /\ sessions'[s].pc # "insert")
          => versions' = Append(versions,
                 NewVersion(sessions[s].prompt_id, sessions[s].number,
                            sessions[s].text, sessions[s].content))]_vars

\* two versions of one prompt carry the same version_number
C10_Witness ==
    \E i, k \in 1..Len(versions) :
        /\ i # k
        /\ versions[i].prompt_id = versions[k].prompt_id
        /\ versions[i].version_number = versions[k].version_number


\* ============================================ properties, Spec (continued)
\* C11: update_prompt is one transaction: when the call fails after the
\* authorization, neither a new version nor any change of the prompt's
\* fields is persisted.
C11_UpdateAtomic ==
    \A p \in DOMAIN prompts, b \in PromptUpdates :
        LET r == update_prompt(DB, p, b, OwnerOf(p)) IN
        r.code # HTTP_200_OK =>
            /\ r.db.versions = versions
            /\ r.db.prompts = prompts


C13_StatusDomain ==
    \A p \in DOMAIN prompts :
        prompts[p].status \in { Some(x) : x \in StatusValues }


\* C14: in every reachable state each prompt belongs to an existing
\* project and its user_id is the user_id of that project.
C14_OwnershipInvariant ==
    \A p \in DOMAIN prompts :
        /\ prompts[p].project_id \in DOMAIN projects
        /\ prompts[p].user_id = projects[prompts[p].project_id].user_id

\* a prompt that has been updated (it has a version) in a project that has
\* been renamed, while another user is refused the creation of a prompt in
\* that project
C14_Witness ==
    \E p \in DOMAIN prompts, u \in Users :
        /\ VersionsOf(versions, p) # {}
        /\ projects[prompts[p].project_id].name = "n2"
        /\ u # prompts[p].user_id
        /\ create_prompt(DB, prompts[p].project_id, TextVibe, Some("feature"), u).code
              = HTTP_403_FORBIDDEN


\* C15: create_prompt for a project that does not exist answers 404, for a
\* project of somebody else 403, and creates nothing; by the owner it
\* creates exactly one prompt: status pending, user_id the caller's, no
\* generated_content, no share token, no version; nothing else changes.
C15_CreatePrompt ==
    \A u \in Users, j \in PathProjectIds, t \in RawTexts, y \in TypeValues :
        LET r == route_create_prompt(DB, u, j, j, t, y)
            new == DOMAIN r.db.prompts \ DOMAIN prompts
        IN  IF j \notin DOMAIN projects
            THEN r.code = HTTP_404_NOT_FOUND /\ r.body = None /\ r.db = DB
            ELSE IF projects[j].user_id # u
            THEN r.code = HTTP_403_FORBIDDEN /\ r.body = None /\ r.db = DB
            ELSE /\ r.code = HTTP_201_CREATED
                 /\ Cardinality(new) = 1
                 /\ \A p \in DOMAIN prompts :
                       p \in DOMAIN r.db.prompts /\ r.db.prompts[p] = prompts[p]
                 /\ \A p \in new :
                       /\ r.db.prompts[p].status = Some("pending")
                       /\ r.db.prompts[p].user_id = u
                       /\ r.db.prompts[p].project_id = j
                       /\ r.db.prompts[p].generated_content = None
                       /\ r.db.prompts[p].prompt_text = sanitize_prompt_text(t)
                       /\ \A k \in Tokens : ~HasToken(r.db, p, k)
                       /\ VersionsOf(r.db.versions, p) = {}
                       /\ r.body = Some(r.db.prompts[p])
                 /\ r.db.versions = versions
                 /\ r.db.projects = projects
                 /\ r.db.tasks = tasks

\* the owner has created a prompt, still as created, and another user's
\* create_prompt on the same project is refused
C15_Witness ==
    \E p \in DOMAIN prompts, u \in Users :
        /\ Fresh(p)
        /\ u # OwnerOf(p)
        /\ route_create_prompt(DB, u, prompts[p].project_id,
               prompts[p].project_id, TextVibeWide, Some("feature")).code
              = HTTP_403_FORBIDDEN


\* ====================================== properties, ConcSpec (continued)
\* C16: in every reachable state, interleavings of delete with update_prompt
\* calls and task callbacks included, every version refers to an existing
\* prompt and every prompt to an existing project; the owner's delete of a
\* prompt removes the prompt and its versions, the owner's delete of a
\* project removes its prompts and their versions.
C16_CascadeDelete ==
    /\ \A i \in 1..Len(versions) : versions[i].prompt_id \in DOMAIN prompts
    /\ \A p \in DOMAIN prompts : prompts[p].project_id \in DOMAIN projects
    /\ \A p \in DOMAIN prompts :
          LET r == route_delete_prompt(DB, OwnerOf(p), prompts[p].project_id, p)
          IN  /\ r.code = HTTP_200_OK
              /\ p \notin DOMAIN r.db.prompts
              /\ VersionsOf(r.db.versions, p) = {}
    /\ \A j \in DOMAIN projects :
          LET r == delete_project(DB, projects[j].user_id, j) IN
          /\ r.code = HTTP_200_OK
          /\ j \notin DOMAIN r.db.projects
          /\ \A p \in DOMAIN prompts :
                prompts[p].project_id = j =>
                   /\ p \notin DOMAIN r.db.prompts
                   /\ VersionsOf(r.db.versions, p) = {}

\* a call has written its version and waits to update, and the prompt has
\* been deleted meanwhile: the version went with it
C16_Witness ==
    \E s \in SessionIds :
        /\ sessions[s].pc = "update"
        /\ sessions[s].created
        /\ sessions[s].prompt_id \notin DOMAIN prompts
        /\ versions = << >>


\* ============================================ properties, Spec (continued)
\* the versions whose prompt is still there after the step
Surviving == SelectSeq(versions, LAMBDA v : v.prompt_id \in DOMAIN prompts')

\* C17: a version never changes and is removed only with its prompt: in
\* every step the versions of the prompts that remain are kept as they
\* are, in their order, and new rows come after them.
C17_VersionImmutable ==
    [][/\ Len(versions') >= Len(Surviving)
       /\ SubSeq(versions', 1, Len(Surviving)) = Surviving]_vars

\* a version exists and its prompt has since been updated again and sent to
\* processing
C17_Witness ==
    \E p \in DOMAIN prompts : \E i, k \in VersionsOf(versions, p) :
        /\ i < k
        /\ prompts[p].status = Some("processing")
        /\ \E t \in 1..Len(tasks) : tasks[t].prompt_id = p


\* ---------------------------------------------------------------------------
\* C18: frame of update_prompt

\* the columns a partial update names: its fields, and generated_at when it
\* supplies a non-empty generated_content
Present(b) ==
    DOMAIN b \cup
    (IF "generated_content" \in DOMAIN b /\ Truthy(b["generated_content"])
     THEN {"generated_at"} ELSE {})

\* update_prompt by the owner of p leaves every column of p outside exempt
\* as it was, and every other prompt, every project and every task as well
KeepsAllBut(p, b, exempt) ==
    LET r == update_prompt(DB, p, b, OwnerOf(p)) IN
    /\ DOMAIN r.db.prompts = DOMAIN prompts
    /\ \A q \in DOMAIN prompts \ {p} : r.db.prompts[q] = prompts[q]
    /\ \A k \in DOMAIN prompts[p] \ (Present(b) \cup exempt) :
           r.db.prompts[p][k] = prompts[p][k]
    /\ r.db.prompts[p].project_id = prompts[p].project_id
    /\ r.db.prompts[p].user_id = prompts[p].user_id
    /\ r.db.projects = projects
    /\ r.db.tasks = tasks
    /\ (DOMAIN b = {} => r.db = DB /\ r.code = HTTP_200_OK)

\* C18 as stated: update_prompt changes only the fields present in the
\* partial update, plus generated_at when a non-empty generated_content is
\* supplied; every other field keeps its value, project_id and user_id never
\* change, and an update with no fields changes nothing and creates no version
C18_FrameAsStated ==
    \A p \in DOMAIN prompts, b \in PromptUpdates : KeepsAllBut(p, b, {})

\* C18, amended: update_prompt changes only the fields present in the partial
\* update, generated_at when a non-empty generated_content is supplied, and
\* updated_at, which every UPDATE that is carried out sets anew; every other
\* field keeps its value, project_id and user_id never change, and an update
\* with no fields issues no UPDATE, changes nothing and creates no version
C18_Frame ==
    \A p \in DOMAIN prompts, b \in PromptUpdates :
        LET r == update_prompt(DB, p, b, OwnerOf(p)) IN
        /\ KeepsAllBut(p, b, {"updated_at"})
        /\ r.db.prompts[p].updated_at =
               IF DOMAIN b # {} /\ r.code = HTTP_200_OK
               THEN "updated" ELSE prompts[p].updated_at

\* a prompt whose text an update has replaced: it has a version, no content,
\* and the updated_at of an UPDATE
C18_Witness ==
    \E p \in DOMAIN prompts :
        /\ prompts[p].updated_at = "updated"
        /\ prompts[p].generated_content = None
        /\ VersionsOf(versions, p) # {}


\* ----------------------------------------------------------------- auth
\* the bodies of POST /register: UserCreate carries is_premium (it inherits
\* the field from UserBase) next to email and password
Emails == {"e1", "e2", "e3"}
Passwords == {"Secret123", "Hunter2024"}
UserCreates == [email : Emails, password : Passwords, is_premium : BOOLEAN]

\* the ids a new user row can get (uuid4): one more user than Init has
NewUserIds == {"u3"}

\* get_password_hash and verify_password: a hash that only the password it
\* was made from verifies against
get_password_hash(password) == << "hash", password >>
verify_password(password, password_hash) ==
    get_password_hash(password) = password_hash

\* the users row create_user builds: is_premium is not passed to User(), the
\* column takes its default
NewUser(user_in) ==
    [email |-> user_in.email,
     password_hash |-> get_password_hash(user_in.password),
     is_active |-> TRUE, is_superuser |-> FALSE, is_premium |-> FALSE]

\* create_user storing the is_premium of the request
create_user_as_requested(d, user_in, id) ==
    IF \E u \in DOMAIN d.users : d.users[u].email = user_in.email
    THEN Result(d, HTTP_200_OK, None)
    ELSE Result([d EXCEPT !.users =
                    (id :> [NewUser(user_in) EXCEPT
                               !.is_premium = user_in.is_premium]) @@ @],
                HTTP_200_OK, Some(id))

\* services/auth.py create_user: None when the email is taken, or else the
\* new user, whose row gets the id
create_user(d, user_in, id) ==
    IF \E u \in DOMAIN d.users : d.users[u].email = user_in.email
    THEN Result(d, HTTP_200_OK, None)
    ELSE Result([d EXCEPT !.users = (id :> NewUser(user_in)) @@ @],
                HTTP_200_OK, Some(id))

\* routers/auth.py register: 201 with a token for the new user
register(d, user_in, id) ==
    LET r == create_user(d, user_in, id) IN
    IF r.body = None THEN Result(d, HTTP_400_BAD_REQUEST, None)
    ELSE Result(r.db, HTTP_201_CREATED, Some([sub |-> r.body[1]]))

\* services/auth.py authenticate_user: the user with the email, when the
\* password verifies and the user is active
authenticate_user(d, email, password) ==
    LET found == { u \in DOMAIN d.users :
                     /\ d.users[u].email = email
                     /\ verify_password(password, d.users[u].password_hash)
                     /\ d.users[u].is_active }
    IN  IF found = {} THEN None ELSE Some(CHOOSE u \in found : TRUE)

\* routers/auth.py login
login(d, email, password) ==
    LET user == authenticate_user(d, email, password) IN
    IF user = None THEN Result(d, HTTP_401_UNAUTHORIZED, None)
    ELSE Result(d, HTTP_200_OK, Some([sub |-> user[1]]))

\* ------------------------------------------------------------- payments
\* the events Polar sends: the type, and in data the status, the customer
\* id and the external id the checkout was created with (u9 is the id of no
\* user)
Customers == {"c1"}
ExternalIds == Users \cup NewUserIds \cup {"u9"}
EventTypes ==
    {"checkout.created", "checkout.updated", "subscription.created",
     "subscription.updated", "subscription.active", "subscription.canceled",
     "order.created"}
EventStatuses ==
    {"open", "confirmed", "active", "trialing", "canceled",
     "incomplete_expired", "past_due", "incomplete", "paid"}

\* a checkout is open or confirmed and may have no customer yet; a
\* subscription has one of the subscription statuses and a customer
WellFormed(e) ==
    CASE e.type \in {"checkout.created", "checkout.updated"} ->
             e.status \in {"open", "confirmed"}
      [] e.type = "order.created" ->
             e.status = "paid" /\ e.customer_id # None
      [] OTHER ->
             /\ e.status \in {"active", "trialing", "canceled",
                               "incomplete_expired", "past_due", "incomplete"}
             /\ e.customer_id # None

Events ==
    { e \in [type : EventTypes, status : EventStatuses,
             customer_id : {None} \cup { Some(c) : c \in Customers },
             customer_external_id : {None} \cup { Some(u) : u \in ExternalIds }] :
        WellFormed(e) }

\* the secret the service is configured with, and one it is not
Secrets == {"k1", "k2"}
webhook_secret == "k1"

\* the signature header of a payload signed with a secret
Sign(secret, payload) == [secret |-> secret, payload |-> payload]

\* the requests that reach /webhook/polar: a payload with the signature
\* either secret gives it, or with the signature Polar made for the same
\* event without an external id
SignaturesFor(e) ==
    { Sign(k, e) : k \in Secrets } \cup
    { Sign(webhook_secret, [e EXCEPT !.customer_external_id = None]) }

WebhookRequests ==
    UNION { { [payload |-> e, signature |-> g] : g \in SignaturesFor(e) } :
            e \in Events }

\* validate_webhook letting every payload through
validate_webhook_unverified(request) == Some(request.payload)

\* services/payments.py validate_webhook: the event when the signature is
\* the one of the payload under webhook_secret, None for
\* WebhookVerificationError
validate_webhook(request) ==
    IF request.signature = Sign(webhook_secret, request.payload)
    THEN Some(request.payload) ELSE None

\* _activate_premium_access: logs, the mapping from the Polar customer to a
\* user is left to do
activate_premium_access(d, polar_customer_id) == d

\* _deactivate_premium_access: logs
deactivate_premium_access(d, polar_customer_id) == d

\* _activate_premium_by_user_id
activate_premium_by_user_id(d, user_id) ==
    IF user_id \in DOMAIN d.users
    THEN [d EXCEPT !.users[user_id].is_premium = TRUE]
    ELSE d

\* _process_successful_payment
process_successful_payment(d, data) ==
    IF data.customer_external_id # None
    THEN activate_premium_by_user_id(d, data.customer_external_id[1])
    ELSE IF data.customer_id # None
    THEN activate_premium_access(d, data.customer_id[1])
    ELSE d

\* _handle_checkout_updated
handle_checkout_updated(d, data) ==
    IF data.status = "confirmed" THEN process_successful_payment(d, data)
    ELSE d

\* _handle_subscription_created and _handle_subscription_active
handle_subscription_created(d, data) ==
    activate_premium_access(d, data.customer_id)

\* _handle_subscription_updated
handle_subscription_updated(d, data) ==
    IF data.status \in {"active", "trialing"}
    THEN activate_premium_access(d, data.customer_id)
    ELSE IF data.status \in {"canceled", "incomplete_expired", "past_due"}
    THEN deactivate_premium_access(d, data.customer_id)
    ELSE d

\* _handle_subscription_canceled
handle_subscription_canceled(d, data) ==
    deactivate_premium_access(d, data.customer_id)

\* process_webhook_event: the database after the event
process_webhook_event(d, event) ==
    CASE event.type = "checkout.created" -> d
      [] event.type = "checkout.updated" -> handle_checkout_updated(d, event)
      [] event.type = "subscription.created" ->
             handle_subscription_created(d, event)
      [] event.type = "subscription.updated" ->
             handle_subscription_updated(d, event)
      [] event.type = "subscription.active" ->
             handle_subscription_created(d, event)
      [] event.type = "subscription.canceled" ->
             handle_subscription_canceled(d, event)
      [] OTHER -> d

\* routers/payments.py handle_polar_webhook
handle_polar_webhook(d, request) ==
    LET event == validate_webhook(request) IN
    IF event = None THEN Result(d, HTTP_403_FORBIDDEN, None)
    ELSE Result(process_webhook_event(d, event[1]), HTTP_200_OK,
                Some("processed"))

\* ---------------------------------------------------------------- PaySpec
\* the webhook receiver next to the project handlers

\* a request arrives at /webhook/polar
PolarWebhook(request) ==
    LET r == handle_polar_webhook(DB, request) IN
    /\ users' = r.db.users
    /\ projects' = r.db.projects
    /\ prompts' = r.db.prompts
    /\ versions' = r.db.versions
    /\ tasks' = r.db.tasks
    /\ nextProject' = r.db.nextProject
    /\ nextPrompt' = r.db.nextPrompt
    /\ webhook' = Some([type |-> request.payload.type, code |-> r.code])
    /\ UNCHANGED << sessions, calls, san >>

PayNext ==
    \/ \E request \in WebhookRequests : PolarWebhook(request)
    \/ \E u \in Users, n \in ProjectNames : Do(create_project(DB, u, n))
    \/ \E u \in Users, j \in ProjectIds, b \in ProjectUpdates :
            Do(update_project(DB, u, j, b))
    \/ \E u \in Users, j \in ProjectIds : Do(delete_project(DB, u, j))
    \/ \E u \in Users, j \in PathProjectIds, b \in ProjectIds, t \in RawTexts,
          y \in TypeValues :
            Do(route_create_prompt(DB, u, j, b, t, y))
    \/ \E user_in \in UserCreates, id \in NewUserIds \ DOMAIN users :
            Do(register(DB, user_in, id))
    \/ \E email \in Emails, password \in Passwords :
            Do(login(DB, email, password))

PaySpec == Init /\ [][PayNext]_vars


\* ---------------------------------------------------------------------------
\* C19: subscription events and the premium flag

\* the subscription events that are to switch premium on, and off
Activates(e) ==
    \/ e.type \in {"subscription.created", "subscription.active"}
    \/ e.type = "subscription.updated" /\ e.status \in {"active", "trialing"}

Deactivates(e) ==
    \/ e.type = "subscription.canceled"
    \/ /\ e.type = "subscription.updated"
       /\ e.status \in {"canceled", "incomplete_expired", "past_due"}

\* C19: there is a mapping from Polar customers to users under which
\* processing a verified subscription.created, subscription.active or
\* subscription.updated (active, trialing) event leaves the mapped user's
\* premium flag true, and processing subscription.canceled or
\* subscription.updated (canceled, incomplete_expired, past_due) leaves it
\* false
C19_PremiumFollowsSubscription ==
    \E mapped \in [Customers -> Users] :
        \A e \in Events :
            e.customer_id # None =>
                LET d == process_webhook_event(DB, e)
                    flag == d.users[mapped[e.customer_id[1]]].is_premium
                IN  /\ Activates(e) => flag
                    /\ Deactivates(e) => ~flag


\* ---------------------------------------------------------------------------
\* C20: the webhook receiver fails closed

\* the signature of the request is the one webhook_secret gives its payload
Verified(request) ==
    request.signature = Sign(webhook_secret, request.payload)

\* C20: a request to /webhook/polar whose signature does not verify is
\* answered 403 and leaves every user's premium flag, and all the rest of
\* the database, as it was
C20_FailClosed ==
    \A request \in WebhookRequests :
        ~Verified(request) =>
            LET r == handle_polar_webhook(DB, request) IN
            /\ r.code = HTTP_403_FORBIDDEN
            /\ r.db = DB

\* a checkout.updated request, the one kind that can set a premium flag,
\* has been answered 403
C20_Witness ==
    /\ webhook # None
    /\ webhook[1].type = "checkout.updated"
    /\ webhook[1].code = HTTP_403_FORBIDDEN


\* ---------------------------------------------------------------------------
\* C21: who changes the premium flag

\* the handler result r leaves the users table as it is
KeepsUsers(r) == r.db.users = users

\* the event types process_webhook_event has a branch for
HandledTypes ==
    {"checkout.created", "checkout.updated", "subscription.created",
     "subscription.updated", "subscription.active", "subscription.canceled"}

\* C21: registration gives the new user premium false whatever the request
\* asks for and changes no other user; login, the project, prompt and share
\* operations and a webhook request that does not verify leave every user
\* row as it is; a verified event of a type without a branch is answered
\* 200 and changes nothing.  What is left to change a premium flag is the
\* processing of a verified event
C21_PremiumOnlyByWebhook ==
    /\ \A user_in \in UserCreates, id \in NewUserIds \ DOMAIN users :
           LET r == register(DB, user_in, id) IN
           \A u \in DOMAIN r.db.users :
               IF u \in DOMAIN users THEN r.db.users[u] = users[u]
               ELSE r.db.users[u].is_premium = FALSE
    /\ \A email \in Emails, password \in Passwords :
           KeepsUsers(login(DB, email, password))
    /\ \A u \in Users :
           /\ \A n \in ProjectNames : KeepsUsers(create_project(DB, u, n))
           /\ \A j \in ProjectIds :
                  /\ KeepsUsers(read_project(DB, u, j))
                  /\ KeepsUsers(delete_project(DB, u, j))
                  /\ KeepsUsers(get_prompts_by_project(DB, j, u))
                  /\ \A b \in ProjectUpdates :
                         KeepsUsers(update_project(DB, u, j, b))
           /\ \A j \in PathProjectIds :
                  /\ \A b \in ProjectIds, t \in RawTexts, y \in TypeValues :
                         KeepsUsers(route_create_prompt(DB, u, j, b, t, y))
                  /\ \A p \in PromptIds :
                         /\ KeepsUsers(route_get_prompt(DB, u, j, p))
                         /\ KeepsUsers(route_delete_prompt(DB, u, j, p))
                         /\ \A b \in PromptUpdates :
                                KeepsUsers(route_update_prompt(DB, u, j, p, b))
           /\ \A p \in PromptIds :
                  /\ KeepsUsers(process_prompt(DB, u, p))
                  /\ KeepsUsers(get_prompt_status(DB, u, p))
                  /\ \A k \in Tokens : KeepsUsers(create_share_link(DB, p, u, k))
    /\ \A k \in Tokens : KeepsUsers(route_get_shared_prompt(DB, k))
    /\ \A i \in 1..Len(tasks), c \in ContentValues :
           KeepsUsers(process_prompt_with_openai(DB, i, c))
    /\ \A request \in WebhookRequests :
           LET r == handle_polar_webhook(DB, request) IN
           /\ ~Verified(request) => KeepsUsers(r)
           /\ Verified(request) /\ request.payload.type \notin HandledTypes =>
                  r.code = HTTP_200_OK /\ r.db = DB

\* a user has registered and is not premium, while a user of a prompt is
C21_Witness ==
    /\ \E u \in NewUserIds : u \in DOMAIN users /\ ~users[u].is_premium
    /\ \E p \in DOMAIN prompts : users[prompts[p].user_id].is_premium


\* ---------------------------------------------------------------- SanSpec
\* sanitize_prompt_text one statement at a time, on every text of up to
\* MaxText characters and on the documented example text

MaxText == 3
SanChars == {"a", " ", "\t", "<"}
ExampleText ==
    << " ", " ", "v", "i", "b", "e", " ", " ", " ", "c", "o", "d", "i",
       "n", "g", " ", "<", "s", "c", "r", "i", "p", "t", ">", " ", " " >>
ExampleSanitized ==
    << "v", "i", "b", "e", " ", "c", "o", "d", "i", "n", "g", " ", "s",
       "c", "r", "i", "p", "t" >>

SanTexts ==
    UNION { [1..n -> SanChars] : n \in 0..MaxText } \cup {ExampleText}

\* sanitize_prompt_text is called with a text
SanInit ==
    /\ projects = << >>
    /\ prompts = << >>
    /\ versions = << >>
    /\ tasks = << >>
    /\ nextProject = 1
    /\ nextPrompt = 1
    /\ users = RegisteredUsers
    /\ sessions = [s \in SessionIds |-> Idle]
    /\ calls = 0
    /\ webhook = None
    /\ \E t \in SanTexts :
           san = [text |-> t, sanitized |-> << >>, pc |-> "start",
                  first |-> None]

SanStep(next) ==
    /\ san' = next
    /\ UNCHANGED << projects, prompts, versions, tasks, nextProject, nextPrompt,
                    users, sessions, calls, webhook >>

\* lines 76-77: if not text: return ""
SanReturnEmpty ==
    /\ san.pc = "start"
    /\ san.text = << >>
    /\ SanStep([san EXCEPT !.sanitized = << >>, !.pc = "done"])

\* line 79: sanitized = re.sub(r'\s+', ' ', text).strip()
SanCollapse ==
    /\ san.pc = "start"
    /\ san.text # << >>
    /\ SanStep([san EXCEPT !.sanitized = Strip(CollapseWhitespace(san.text)),
                            !.pc = "collapsed"])

\* lines 82-84: sanitized = re.sub(r'[<>{}\[\]\\^~]', '', sanitized), return
SanRemove ==
    /\ san.pc = "collapsed"
    /\ SanStep([san EXCEPT !.sanitized = RemoveForbidden(san.sanitized),
                            !.pc = "done"])

\* the text that came back is sanitized again, as create_prompt and
\* update_prompt do with a stored text that a client sends back
SanAgain ==
    /\ san.pc = "done"
    /\ san.first = None
    /\ SanStep([text |-> san.sanitized, sanitized |-> << >>, pc |-> "start",
                first |-> Some(san.sanitized)])

SanNext ==
    \/ SanReturnEmpty
    \/ SanCollapse
    \/ SanRemove
    \/ SanAgain

SanSpec == SanInit /\ [][SanNext]_vars


\* ---------------------------------------------------------------------------
\* C22: what sanitize_prompt_text returns

\* the n-th smallest member of a set of positions
NthOf(S, n) == CHOOSE i \in S : Cardinality({ j \in S : j < i }) = n - 1

\* the characters of s at the positions of S, in order
At(s, S) == [n \in 1..Cardinality(S) |-> s[NthOf(S, n)]]

\* each run of whitespace replaced by one space: the characters that are
\* not whitespace stay, and of a run its first position stays, as a space
RunsReplaced(s) ==
    LET spaced == [i \in 1..Len(s) |->
                      IF s[i] \in Whitespace THEN " " ELSE s[i]]
    IN  At(spaced, { i \in 1..Len(s) :
                       s[i] \notin Whitespace \/ i = 1
                         \/ s[i - 1] \notin Whitespace })

\* both ends trimmed: from the first to the last character that is not
\* whitespace
Trimmed(s) ==
    At(s, { i \in 1..Len(s) :
              /\ \E j \in 1..i : s[j] \notin Whitespace
              /\ \E j \in i..Len(s) : s[j] \notin Whitespace })

\* every occurrence of < > { } [ ] \ ^ ~ deleted
Deleted(s) == At(s, { i \in 1..Len(s) : s[i] \notin Forbidden })

\* C22: for every input, sanitize_prompt_text returns the string obtained by
\* replacing each run of whitespace with one space, then trimming both
\* ends, then deleting every < > { } [ ] \ ^ ~; the empty input gives the
\* empty string and "  vibe   coding <script>  " gives "vibe coding script"
C22_Sanitized ==
    /\ san.pc = "done" =>
           /\ san.sanitized = Deleted(Trimmed(RunsReplaced(san.text)))
           /\ san.sanitized = sanitize_prompt_text(san.text)
           /\ san.text = << >> => san.sanitized = << >>
           /\ san.text = ExampleText => san.sanitized = ExampleSanitized
    /\ san.pc = "collapsed" => san.sanitized = Trimmed(RunsReplaced(san.text))

\* the call on the example has returned
C22_Witness ==
    /\ san.pc = "done"
    /\ san.text = ExampleText
    /\ san.sanitized = ExampleSanitized


\* ---------------------------------------------------------------------------
\* C30: sanitizing twice

\* C30: sanitize_prompt_text is idempotent: sanitizing what a first call
\* returned returns it unchanged
C30_Idempotent ==
    san.pc = "done" /\ san.first # None => san.sanitized = san.first[1]


\* ---------------------------------------------------------------------------
\* C23: one completion task per prompt

\* the completion tasks outstanding for prompt p: the ones add_task has
\* queued and the ones that run (their update_prompt call is under way)
Queued(p) == { i \in 1..Len(tasks) : tasks[i].prompt_id = p }
Running(p) ==
    { s \in SessionIds :
        /\ sessions[s].pc # "idle"
        /\ sessions[s].kind = "task"
        /\ sessions[s].prompt_id = p }

\* C23: at any time at most one completion task is outstanding (queued or
\* running) for a prompt, also when two process requests for the prompt run
\* concurrently
C23_OneTaskPerPrompt ==
    \A p \in PromptIds : Cardinality(Queued(p)) + Cardinality(Running(p)) <= 1


\* --------------------------------------------------------------- LiveSpec
\* Spec with the background tasks scheduled fairly: a task that add_task
\* has queued is run (the completion may succeed or fail)
RunTask ==
    \E i \in 1..Len(tasks), c \in ContentValues :
        Do(process_prompt_with_openai(DB, i, c))

LiveSpec == Spec /\ WF_vars(RunTask)

\* ---------------------------------------------------------------------------
\* C24: processing ends

StatusIs(p, values) ==
    p \in DOMAIN prompts /\ prompts[p].status \in { Some(x) : x \in values }

\* C24: with the tasks scheduled fairly, every prompt whose status is
\* processing eventually has status completed or failed (or is deleted),
\* whatever updates, process requests and callbacks came before
C24_ProcessingEnds ==
    \A p \in PromptIds :
        StatusIs(p, {"processing"}) ~>
            (p \notin DOMAIN prompts \/ StatusIs(p, {"completed", "failed"}))


\* ---------------------------------------------------------------------------
\* C25: completed prompts have content

\* C25: in every reachable state a prompt with status completed has a
\* non-empty generated_content
C25_CompletedHasContent ==
    \A p \in DOMAIN prompts :
        prompts[p].status = Some("completed") =>
            Truthy(prompts[p].generated_content)


\* ---------------------------------------------------------------------------
\* C26: version numbers without gaps

\* the version numbers prompt p has
NumbersOf(p) == { versions[i].version_number : i \in VersionsOf(versions, p) }

\* C26: in every reachable state, under any interleaving of the calls, the
\* version numbers of a prompt are exactly 1..k for some k >= 0 (two rows
\* may carry one number, no number is skipped), and a prompt that is gone
\* has no version
C26_NoGap ==
    \A p \in PromptIds :
        /\ NumbersOf(p) = 1..Cardinality(NumbersOf(p))
        /\ p \notin DOMAIN prompts => NumbersOf(p) = {}

\* a prompt has the numbers 1 and 2 while another call on it is under way
C26_Witness ==
    \E p \in DOMAIN prompts :
        /\ NumbersOf(p) = {1, 2}
        /\ \E s \in SessionIds :
              sessions[s].pc # "idle" /\ sessions[s].prompt_id = p


\* ---------------------------------------------------------------------------
\* C27: returned tokens keep resolving

\* token k resolves to prompt p in database d
ResolvesTo(d, k, p) ==
    /\ route_get_shared_prompt(d, k).code = HTTP_200_OK
    /\ route_get_shared_prompt(d, k).body = Some(d.prompts[p])

C28_ContentForCurrentText ==
    \A i \in 1..Len(tasks), c \in Completions :
        LET t == tasks[i]
            r == process_prompt_with_openai(DB, i, Some(c))
        IN  (/\ r.code = HTTP_200_OK
             /\ r.db.prompts[t.prompt_id].generated_content = Some(c)
             /\ r.db.prompts[t.prompt_id].status = Some("completed"))
                => r.db.prompts[t.prompt_id].prompt_text = t.prompt_text


\* -------------------------------------------------------------- FaultSpec
\* the handlers with a persistence step that can fail after the commit:
\* db.refresh(prompt), line 270 of services/prompt.py, raises (the
\* connection is lost, say) although the UPDATE of line 264 is committed

\* update_prompt whose refresh raises when refresh_raises: the UPDATE stays,
\* the except of line 274 rolls back nothing and answers 500
update_prompt_then_refresh(d, prompt_id, update_data, user_id, refresh_raises) ==
    LET r == update_prompt(d, prompt_id, update_data, user_id) IN
    IF /\ refresh_raises
       /\ r.code = HTTP_200_OK
       /\ DOMAIN PreparedUpdate(update_data) # {}
    THEN Result(r.db, HTTP_500_INTERNAL_SERVER_ERROR, None)
    ELSE r

\* process_prompt_with_openai, lines 220-256, with the refresh of its first
\* and of its second update_prompt raising or not: any exception of the try
\* block, the first update_prompt's included, leads to the update_prompt
\* with status failed
task_with_refresh(d, i, completion, raises1, raises2) ==
    LET t == d.tasks[i]
        d0 == [d EXCEPT !.tasks = RemoveAt(@, i)]
        r1 == update_prompt_then_refresh(d0, t.prompt_id,
                  [generated_content |-> completion, status |-> Some("completed")],
                  t.user_id, raises1)
        r2 == update_prompt_then_refresh(
                  IF completion = None THEN d0 ELSE r1.db, t.prompt_id,
                  [status |-> Some("failed")], t.user_id, raises2)
    IN  IF completion # None /\ r1.code = HTTP_200_OK
        THEN Result(r1.db, r1.code, None)
        ELSE Result(r2.db, r2.code, None)

FaultNext ==
    \/ \E u \in Users : Do(create_project(DB, u, "n1"))
    \/ \E u \in Users, j \in ProjectIds, t \in RawTexts, y \in TypeValues :
            Do(route_create_prompt(DB, u, j, j, t, y))
    \/ \E u \in Users, j \in ProjectIds, p \in PromptIds, b \in ConcUpdates :
            Do(route_update_prompt(DB, u, j, p, b))
    \/ \E u \in Users, j \in ProjectIds, p \in PromptIds :
            Do(route_delete_prompt(DB, u, j, p))
    \/ \E u \in Users, p \in PromptIds : Do(process_prompt(DB, u, p))
    \/ \E i \in 1..Len(tasks), c \in ContentValues, raises1, raises2 \in BOOLEAN :
            Do(task_with_refresh(DB, i, c, raises1, raises2))

FaultSpec == Init /\ [][FaultNext]_vars

\* ---------------------------------------------------------------------------
\* C29: one outcome per task

\* C29: a background task applies at most one outcome to its prompt: when
\* it has stored its completion on the prompt it has not set status failed,
\* also when a persistence step of the success callback fails after its
\* commit
C29_OneOutcome ==
    \A i \in 1..Len(tasks), c \in Completions, raises1, raises2 \in BOOLEAN :
        LET p == tasks[i].prompt_id
            r == task_with_refresh(DB, i, Some(c), raises1, raises2)
        IN  p \in DOMAIN prompts /\ prompts[p].generated_content # Some(c) =>
                ~(/\ r.db.prompts[p].generated_content = Some(c)
                  /\ r.db.prompts[p].status = Some("failed"))

=============================================================================
